---- MODULE Spec2Model ----
(***************************************************************************)
(* sails-hook-sequelize: the hook's start-up run (initialize -> reload ->  *)
(* initConnections -> defineModels -> migrateSchema) as a state machine,   *)
(* with the database behind each connection as the environment.            *)
(*                                                                         *)
(* JavaScript `undefined` / '' is the empty string "" for string-valued    *)
(* fields; an object that is not there is a record with present = FALSE.   *)
(***************************************************************************)
EXTENDS Integers, Sequences, FiniteSets, TLC

VARIABLES
    migrate,            \* sails.config.models.migrate
    smartMigrate,       \* sails.config[configKey].smartMigrate
    dryRun,             \* sails.config[configKey].dryRun
    datastores,         \* sails.config.connections || sails.config.datastores
    modelDefs,          \* what originalLoadModels hands to its callback
    loadErr,            \* the err originalLoadModels hands to its callback
    nextThrows,         \* the completion callback throws when it is called to report success
    pc,                 \* position of the run
    thrown,             \* exception that left the run, NoErr if none
    connections,        \* names for which a Sequelize connection was constructed
    sailsModels,        \* sails.models: lower-cased globalId -> bound model
    syncTasks,          \* per connection, the entry pushed on syncTasks
    firstError,         \* first rejection among the tasks, NoErr if none
    constructed,        \* names for which `new Sequelize(...)` was executed
    nextCalls,          \* invocations of the completion callback, in order
    dbIndexes,          \* database: index names present, per connection
    dbSchemas,          \* database: schema namespaces present, per connection
    createPending,      \* createSchema calls in flight, per connection
    queryCalls,         \* introspection queries issued, per connection
    showAllSchemasCalls,\* showAllSchemas() calls issued, per connection
    createSchemaCalls,  \* createSchema(name) calls issued, per connection
    syncCalls,          \* sync({force, alter}) calls issued, per connection
    taskConn,           \* smart-migrate task: the connection it was built for
    taskPc,             \* smart-migrate task: position in its body
    taskModel,          \* smart-migrate task: index of the model in the loop
    taskRun,            \* smart-migrate task: number of the convergence run
    existingIndexes,    \* smart-migrate task: what deduplicateIndexes returned, per definition
    appliedByFirstRun,  \* models whose pending indexes the first run's sync applied
    belongsToMany,      \* Sequelize.Model.belongsToMany: "original" or "intercepted"
    belongsToManyCalls, \* many-to-many requests as they reached the original method
    invocations,        \* calls of the definitions' associations and defaultScope
    waterlineModels     \* what the overridden sails.modules.loadModels handed to its cb

vars == << migrate, smartMigrate, dryRun, datastores, modelDefs, loadErr, nextThrows,
           pc, thrown, connections, constructed, sailsModels, syncTasks,
           firstError, nextCalls, dbIndexes, dbSchemas, createPending, queryCalls,
           showAllSchemasCalls, createSchemaCalls, syncCalls,
           taskConn, taskPc, taskModel, taskRun, existingIndexes,
           appliedByFirstRun, belongsToMany, belongsToManyCalls, invocations,
           waterlineModels >>

configVars == << migrate, smartMigrate, dryRun, datastores, modelDefs, loadErr,
                nextThrows >>
taskVars   == << taskConn, taskPc, taskModel, taskRun, existingIndexes,
                appliedByFirstRun >>
defineVars == << belongsToMany, belongsToManyCalls, invocations >>

----------------------------------------------------------------------------
(* Bounds *)

\* number of consecutive convergence runs of the smart-migrate task
MaxRuns == 2

----------------------------------------------------------------------------
(* Inputs: connection configuration *)

ConnOrder == << "default", "aux" >>
Conns     == { ConnOrder[i] : i \in 1..Len(ConnOrder) }

\* sails.config.models.connection || sails.config.models.datastore || 'default'
datastoreName == "default"

ConnEntry(adapter, dialect, hasOptions, optDialect) ==
    [ present |-> TRUE, adapter |-> adapter, dialect |-> dialect,
      hasOptions |-> hasOptions, optDialect |-> optDialect ]

NoEntry         == [ present |-> FALSE, adapter |-> "", dialect |-> "",
                     hasOptions |-> FALSE, optDialect |-> "" ]
WaterlineEntry  == ConnEntry("sails-disk", "", FALSE, "")
PostgresEntry   == ConnEntry("", "postgres", FALSE, "")
MysqlEntry      == ConnEntry("", "mysql", FALSE, "")
SqliteEntry     == ConnEntry("", "sqlite", FALSE, "")
OptPostgresEntry == ConnEntry("", "", TRUE, "postgres")
NoDialectEntry  == ConnEntry("", "", TRUE, "")
BareEntry       == ConnEntry("", "", FALSE, "")

DefaultEntries == { NoEntry, WaterlineEntry, PostgresEntry, MysqlEntry,
                    SqliteEntry, OptPostgresEntry, NoDialectEntry, BareEntry }
AuxEntries     == { NoEntry, WaterlineEntry, PostgresEntry, MysqlEntry,
                    NoDialectEntry, BareEntry }

----------------------------------------------------------------------------
(* Inputs: model definitions *)

ModelOrder == << "m1", "m2" >>
ModelKeys  == { ModelOrder[i] : i \in 1..Len(ModelOrder) }

Index(name, fields, unique) == [ name |-> name, fields |-> fields, unique |-> unique ]

IdxAB      == Index("", << "a", "b" >>, FALSE)
IdxAC      == Index("", << "a", "c" >>, FALSE)
IdxABNamed == Index("ab_idx", << "a", "b" >>, FALSE)
IdxUnique  == Index("", << "a", "b" >>, TRUE)
IdxSingle  == Index("", << "a" >>, FALSE)

\* the `through` option of a many-to-many request: a model name (a string),
\* a model (a class), an object { model, unique }, or "" for no request;
\* unique = FALSE stands for `unique: false`, TRUE for anything else
Through(form, model, unique) == [ form |-> form, model |-> model, unique |-> unique ]
NoThrough == Through("", "", TRUE)

\* modelDef.associations: not a function, or a function that makes one
\* belongsToMany request with the given `through` and then returns or throws
Associations(through, throws) ==
    [ isFunction |-> TRUE, through |-> through, throws |-> throws ]
NoAssociations == [ isFunction |-> FALSE, through |-> NoThrough, throws |-> FALSE ]

ModelDef(globalId, hasOptions, connection, tableName, schema, indexes) ==
    [ present |-> TRUE, globalId |-> globalId, hasOptions |-> hasOptions,
      connection |-> connection, tableName |-> tableName, schema |-> schema,
      indexes |-> indexes, associations |-> NoAssociations, defaultScope |-> FALSE ]

NoDef == [ present |-> FALSE, globalId |-> "", hasOptions |-> FALSE,
           connection |-> "", tableName |-> "", schema |-> "", indexes |-> << >>,
           associations |-> NoAssociations, defaultScope |-> FALSE ]

\* a definition with an associations function, with a defaultScope function
WithAssociations(d, a) == [ d EXCEPT !.associations = a ]
WithDefaultScope(d)    == [ d EXCEPT !.defaultScope = TRUE ]

M1Defs == { ModelDef("User", FALSE, "", "", "", << >>),
            ModelDef("User", TRUE, "", "user", "", << >>),
            ModelDef("User", TRUE, "", "user", "", << IdxAB >>),
            ModelDef("User", TRUE, "", "user", "", << IdxAB, IdxAC, IdxUnique >>),
            ModelDef("User", TRUE, "", "user", "", << IdxABNamed, IdxAB, IdxSingle >>),
            ModelDef("User", TRUE, "", "user", "s1", << IdxAB >>),
            ModelDef("User", TRUE, "aux", "user", "", << IdxAC >>),
            ModelDef("User", TRUE, "", "", "", << >>),
            WithDefaultScope(
              WithAssociations(ModelDef("User", TRUE, "", "user", "", << IdxAB >>),
                               Associations(Through("object", "Role", TRUE), FALSE))),
            WithAssociations(ModelDef("User", TRUE, "", "user", "", << >>),
                             Associations(Through("name", "Role", TRUE), FALSE)),
            WithAssociations(ModelDef("User", TRUE, "", "user", "", << >>),
                             Associations(Through("model", "Role", TRUE), FALSE)),
            WithAssociations(ModelDef("User", TRUE, "", "user", "", << >>),
                             Associations(Through("object", "Role", TRUE), TRUE)) }

M2Defs == { NoDef,
            ModelDef("Role", FALSE, "", "", "", << >>),
            ModelDef("Role", TRUE, "", "role", "", << >>),
            WithDefaultScope(
              WithAssociations(ModelDef("Role", TRUE, "", "role", "s1", << IdxAB >>),
                               Associations(NoThrough, FALSE))),
            ModelDef("Role", TRUE, "aux", "role", "s2", << IdxAB >>),
            ModelDef("USER", TRUE, "", "user", "", << IdxAC >>) }

\* String.prototype.toLowerCase on the global identifiers in use
toLowerCase(s) ==
    CASE s = "User" -> "user"
      [] s = "USER" -> "user"
      [] s = "Users" -> "users"
      [] s = "Role" -> "role"
      [] OTHER      -> s

ModelIds == { "user", "role" }

----------------------------------------------------------------------------
(* Errors and the completion callback *)

Err(name, conn) == [ name |-> name, conn |-> conn ]
NoErr == Err("", "")

\* next() and next(e): the argument the callback was invoked with
Succeeded(calls) == \E i \in 1..Len(calls) : calls[i] = NoErr
Failed(calls)    == \E i \in 1..Len(calls) : calls[i] # NoErr

----------------------------------------------------------------------------
(* initConnections *)

\* connection.adapter || !(connection.dialect || connection.options.dialect)
\* "skip" when the condition is true, "own" when it is false, "throw" when
\* evaluating connection.options.dialect reads a property of undefined
SkipCheck(e) ==
    IF e.adapter # "" THEN "skip"
    ELSE IF e.dialect # "" THEN "own"
    ELSE IF ~e.hasOptions THEN "throw"
    ELSE IF e.optDialect # "" THEN "own"
    ELSE "skip"

\* connectionDescription.dialect || connectionDescription.options.dialect
Dialect(e) == IF e.dialect # "" THEN e.dialect ELSE e.optDialect

RECURSIVE ConnLoop(_, _, _)
ConnLoop(ds, i, built) ==
    IF i > Len(ConnOrder) THEN
        [ thrown |-> NoErr, connections |-> built, constructed |-> built ]
    ELSE LET cn == ConnOrder[i]
             e  == ds[cn]
         IN  IF ~e.present THEN ConnLoop(ds, i + 1, built)
             ELSE CASE SkipCheck(e) = "skip"  -> ConnLoop(ds, i + 1, built)
                    [] SkipCheck(e) = "throw" ->
                         [ thrown |-> Err("TypeError: reading dialect", cn), connections |-> {},
                           constructed |-> built ]
                    [] OTHER -> ConnLoop(ds, i + 1, built \cup { cn })

\* initConnections without the check of the default connection
initConnectionsNoDefaultCheck(ds) == ConnLoop(ds, 1, {})

initConnections(ds) ==
    IF ~ds[datastoreName].present THEN
        [ thrown |-> Err("ConfigError", datastoreName), connections |-> {},
          constructed |-> {} ]
    ELSE ConnLoop(ds, 1, {})

----------------------------------------------------------------------------
(* defineModels *)

NoModel == [ present |-> FALSE, globalId |-> "", connection |-> "",
             tableName |-> "", options |-> [ indexes |-> << >> ], indexes |-> << >> ]

\* the table name define derives from the model name when options.tableName
\* is not given: its plural
pluralize(globalId) == globalId \o "s"

\* connections[connectionName].define(globalId, attributes, options)
Define(d, cn) == [ present |-> TRUE, globalId |-> d.globalId, connection |-> cn,
                   tableName |-> IF d.tableName # "" THEN d.tableName
                                 ELSE pluralize(d.globalId),
                   options |-> [ indexes |-> d.indexes ],
                   indexes |-> << >> ]

\* first pass: define models
RECURSIVE FirstPass(_, _, _, _)
FirstPass(defs, conns, i, sm) ==
    IF i > Len(ModelOrder) THEN [ thrown |-> NoErr, models |-> sm ]
    ELSE LET d  == defs[ModelOrder[i]]
             cn == IF d.connection # "" THEN d.connection ELSE datastoreName
         IN  IF ~d.present \/ ~d.hasOptions THEN FirstPass(defs, conns, i + 1, sm)
             ELSE IF cn \notin conns THEN
                 [ thrown |-> Err("TypeError: reading define", cn), models |-> sm ]
             ELSE FirstPass(defs, conns, i + 1,
                            [ sm EXCEPT ![toLowerCase(d.globalId)] = Define(d, cn) ])

\* SomeSameFields comparing the names of the entries
SomeSameName(pending, index) ==
    \E k \in 1..Len(pending) : pending[k].name = index.name

\* model._indexes.some(idx => JSON.stringify(idx.fields) === JSON.stringify(index.fields))
SomeSameFields(pending, index) ==
    \E k \in 1..Len(pending) : pending[k].fields = index.fields

\* modelDef.options.indexes.forEach(...)
RECURSIVE EachIndex(_, _, _)
EachIndex(pending, indexes, j) ==
    IF j > Len(indexes) THEN pending
    ELSE LET index == indexes[j]
         IN  IF index.unique = FALSE /\ Len(index.fields) >= 2
                /\ ~SomeSameFields(pending, index)
             THEN EachIndex(Append(pending, index), indexes, j + 1)
             ELSE EachIndex(pending, indexes, j + 1)

\* third pass: junction-index accumulation
RECURSIVE ThirdPass(_, _, _)
ThirdPass(defs, i, sm) ==
    IF i > Len(ModelOrder) THEN sm
    ELSE LET d  == defs[ModelOrder[i]]
             id == toLowerCase(d.globalId)
         IN  IF ~d.present \/ ~d.hasOptions THEN ThirdPass(defs, i + 1, sm)
             ELSE IF ~sm[id].present THEN ThirdPass(defs, i + 1, sm)
             ELSE ThirdPass(defs, i + 1,
                    [ sm EXCEPT ![id].indexes = EachIndex(sm[id].indexes, d.indexes, 1) ])

\* throughModelDef.options.indexes.some(idx => idx.unique === false
\*                                       && idx.fields && idx.fields.length === 2)
hasNonUniqueIndex(indexes) ==
    \E k \in 1..Len(indexes) : indexes[k].unique = FALSE /\ Len(indexes[k].fields) = 2

\* the function put in place of Sequelize.Model.belongsToMany: options.uniqueKey
\* as the options are handed on to originalBelongsToMany
interceptedBelongsToMany(through, sm) ==
    IF through.form = "object"
    THEN LET throughModelDef == sm[toLowerCase(through.model)]
         IN  IF \/ /\ through.model # ""
                   /\ throughModelDef.present
                   /\ hasNonUniqueIndex(throughModelDef.options.indexes)
                \/ through.unique = FALSE
             THEN "false" ELSE "undefined"
    ELSE "undefined"

\* what the second pass has done so far
PassState(thrown_, method, calls, invoked) ==
    [ thrown |-> thrown_, belongsToMany |-> method, belongsToManyCalls |-> calls,
      invocations |-> invoked ]

\* one call of a definition's function, with what it finds: the method
\* installed, the identifiers resolvable in sails.models, and whether any
\* index has been accumulated
Invocation(fn, d, sm, method) ==
    [ fn |-> fn, globalId |-> d.globalId, belongsToMany |-> method,
      resolvable |-> { id \in ModelIds : sm[id].present },
      accumulated |-> \E id \in ModelIds : sm[id].indexes # << >> ]

\* this.belongsToMany(target, { through }) inside an associations function
Request(d, sm, st) ==
    LET through == d.associations.through
    IN  IF through.form = "" THEN st
        ELSE [ st EXCEPT !.belongsToManyCalls =
                 Append(@, [ model |-> d.globalId, through |-> through,
                             uniqueKey |-> IF st.belongsToMany = "intercepted"
                                           THEN interceptedBelongsToMany(through, sm)
                                           ELSE "undefined" ]) ]

\* setAssociation: intercept, call modelDef.associations(modelDef), restore
setAssociation(d, sm, st) ==
    IF ~d.associations.isFunction THEN st
    ELSE LET originalBelongsToMany == st.belongsToMany
             entered   == [ st EXCEPT !.invocations =
                              Append(@, Invocation("associations", d, sm, st.belongsToMany)),
                            !.belongsToMany = "intercepted" ]
             requested == Request(d, sm, entered)
         IN  IF d.associations.throws
             THEN [ requested EXCEPT !.thrown = Err("AssociationsError", "") ]
             ELSE [ requested EXCEPT !.belongsToMany = originalBelongsToMany ]

setDefaultScope(d, sm, st) ==
    IF ~d.defaultScope THEN st
    ELSE [ st EXCEPT !.invocations =
             Append(@, Invocation("defaultScope", d, sm, st.belongsToMany)) ]

\* second pass: associations and default scopes
RECURSIVE SecondPass(_, _, _, _)
SecondPass(defs, i, sm, st) ==
    IF i > Len(ModelOrder) THEN st
    ELSE LET d == defs[ModelOrder[i]]
         IN  IF ~d.present \/ ~d.hasOptions THEN SecondPass(defs, i + 1, sm, st)
             ELSE LET a == setAssociation(d, sm, st)
                  IN  IF a.thrown # NoErr THEN a
                      ELSE SecondPass(defs, i + 1, sm, setDefaultScope(d, sm, a))

\* what defineModels leaves: the exception that ended it, sails.models, and
\* what the second pass did
Defined(st, sm) ==
    [ thrown |-> st.thrown, models |-> sm, belongsToMany |-> st.belongsToMany,
      belongsToManyCalls |-> st.belongsToManyCalls, invocations |-> st.invocations ]

\* defineModels with the second pass run ahead of the first
defineModelsSecondPassFirst(defs, conns, sm, method) ==
    LET p2 == SecondPass(defs, 1, sm, PassState(NoErr, method, << >>, << >>))
        p1 == FirstPass(defs, conns, 1, sm)
    IN  IF p2.thrown # NoErr THEN Defined(p2, sm)
        ELSE IF p1.thrown # NoErr THEN Defined([ p2 EXCEPT !.thrown = p1.thrown ], p1.models)
        ELSE Defined(p2, ThirdPass(defs, 1, p1.models))

\* method: Sequelize.Model.belongsToMany as defineModels finds it
defineModels(defs, conns, sm, method) ==
    LET p1 == FirstPass(defs, conns, 1, sm)
        st == PassState(p1.thrown, method, << >>, << >>)
    IN  IF p1.thrown # NoErr THEN Defined(st, p1.models)
        ELSE LET p2 == SecondPass(defs, 1, p1.models, st)
             IN  IF p2.thrown # NoErr THEN Defined(p2, p1.models)
                 ELSE Defined(p2, ThirdPass(defs, 1, p1.models))

----------------------------------------------------------------------------
(* migrateSchema: flags, tasks, and the database behind connection.sync *)

Migrations == { "safe", "drop", "alter", "create" }

\* forceSyncFlag of a switch whose 'alter' case falls from the 'drop' case
forceSyncFlagFallThrough(m) == m \in { "drop", "alter" }
\* switch (migrate) { case 'drop': ... case 'alter': ... default: ... }
forceSyncFlag(m) == m = "drop"
alterFlag(m)     == m = "alter"
SyncFlags(m)     == [ force |-> forceSyncFlag(m), alter |-> alterFlag(m) ]

\* idx.fields.join('_')
RECURSIVE join(_, _)
join(fields, sep) ==
    IF Len(fields) = 0 THEN ""
    ELSE IF Len(fields) = 1 THEN fields[1]
    ELSE fields[1] \o sep \o join(Tail(fields), sep)

\* idx.name || `${tableName}_${idx.fields.join('_')}`
IndexName(tableName, idx) ==
    IF idx.name # "" THEN idx.name ELSE tableName \o "_" \o join(idx.fields, "_")

\* an index of the database: the table it is on and its name
DbIndex(table, name) == [ table |-> table, name |-> name ]

\* the pending indexes of the models defined on connection cn, as the
\* database will hold them
PendingIndexes(sm, cn) ==
    UNION { { DbIndex(sm[id].tableName, IndexName(sm[id].tableName, sm[id].indexes[k])) :
                k \in 1..Len(sm[id].indexes) } :
            id \in { x \in ModelIds : sm[x].present /\ sm[x].connection = cn } }

\* what a successful connection.sync({force, alter}) leaves in the database
SyncEffect(db, sm, cn, flags) ==
    IF flags.force THEN [ db EXCEPT ![cn] = PendingIndexes(sm, cn) ]
    ELSE [ db EXCEPT ![cn] = db[cn] \cup PendingIndexes(sm, cn) ]

\* TaskFor without the dry-run return inside the loop
TaskForNoDryRun(e, m, smart, dry) ==
    IF ~e.present \/ SkipCheck(e) # "own" THEN "none"
    ELSE IF smart /\ alterFlag(m) THEN "function"
    ELSE IF Dialect(e) = "postgres" THEN "listing"
    ELSE "syncing"

\* the entry pushed on syncTasks for one datastore, as it stands when the
\* for-in loop of migrateSchema has ended
TaskFor(e, m, smart, dry) ==
    IF ~e.present \/ SkipCheck(e) # "own" THEN "none"
    ELSE IF dry THEN "none"
    ELSE IF smart /\ alterFlag(m) THEN "function"
    ELSE IF Dialect(e) = "postgres" THEN "listing"
    ELSE "syncing"

\* Promise.all(syncTasks): fulfilled when no entry is a pending or rejected
\* promise; an entry that is not a promise counts as a fulfilled value
AllFulfilled(tasks) == \A c \in Conns : tasks[c] \in { "none", "function", "resolved" }

\* .then(() => next()).catch(e => next(e)) on Promise.all(syncTasks): what
\* next() throws inside the then callback rejects the promise that the catch
\* callback is attached to
PromiseAll(tasks, err, calls) ==
    IF err # NoErr THEN Append(calls, err)
    ELSE IF AllFulfilled(tasks) THEN
        IF nextThrows THEN calls \o << NoErr, Err("CallbackError", "") >>
        ELSE Append(calls, NoErr)
    ELSE calls

\* the join after a task changed, seen from position p of the run
Join(p, tasks, err, calls) ==
    IF p = "joining" THEN PromiseAll(tasks, err, calls) ELSE calls

JoinPc(p, tasks, err) ==
    IF p = "joining" /\ (err # NoErr \/ AllFulfilled(tasks)) THEN "done" ELSE p

----------------------------------------------------------------------------
(* The run *)

NoCalls == [ c \in Conns |-> 0 ]

\* the overridden loader has not been called
NotLoaded == [ called |-> FALSE, models |-> {} ]

\* no definition of the loop has been through deduplicateIndexes yet
NotIntrospected ==
    [ k \in ModelKeys |-> [ returned |-> FALSE, names |-> {}, failed |-> FALSE ] ]

Config ==
    /\ migrate \in Migrations
    /\ smartMigrate \in BOOLEAN
    /\ dryRun \in BOOLEAN
    /\ \E d \in DefaultEntries, a \in AuxEntries :
         datastores = [ c \in Conns |-> IF c = "default" THEN d ELSE a ]
    /\ \E d1 \in M1Defs, d2 \in M2Defs :
         modelDefs = [ k \in ModelKeys |-> IF k = "m1" THEN d1 ELSE d2 ]
    /\ loadErr \in BOOLEAN
    /\ nextThrows \in BOOLEAN

Init ==
    /\ Config
    /\ pc = "start"
    /\ thrown = NoErr
    /\ connections = {}
    /\ constructed = {}
    /\ sailsModels = [ id \in ModelIds |-> NoModel ]
    /\ syncTasks = [ c \in Conns |-> "none" ]
    /\ firstError = NoErr
    /\ nextCalls = << >>
    /\ dbIndexes = [ c \in Conns |-> {} ]
    /\ \E s \in { {}, { "s1" } } : dbSchemas = [ c \in Conns |-> s ]
    /\ createPending = [ c \in Conns |-> {} ]
    /\ queryCalls = NoCalls
    /\ showAllSchemasCalls = NoCalls
    /\ createSchemaCalls = [ c \in Conns |-> << >> ]
    /\ syncCalls = [ c \in Conns |-> << >> ]
    /\ taskConn = ""
    /\ taskPc = "idle"
    /\ taskModel = 0
    /\ taskRun = 0
    /\ existingIndexes = NotIntrospected
    /\ appliedByFirstRun = {}
    /\ belongsToMany = "original"
    /\ belongsToManyCalls = << >>
    /\ invocations = << >>
    /\ waterlineModels = NotLoaded

dbVars == << dbIndexes, dbSchemas, createPending, queryCalls,
             showAllSchemasCalls, createSchemaCalls, syncCalls >>

\* reload up to the call of originalLoadModels
reload ==
    LET r == initConnections(datastores)
    IN  /\ constructed' = r.constructed
        /\ connections' = r.connections
        /\ thrown' = r.thrown
        /\ pc' = IF r.thrown # NoErr THEN "threw" ELSE "loading"
        /\ UNCHANGED << sailsModels, syncTasks, firstError, nextCalls >>
        /\ UNCHANGED dbVars

initialize ==
    /\ pc = "start"
    /\ reload
    /\ UNCHANGED configVars
    /\ UNCHANGED waterlineModels
    /\ UNCHANGED defineVars
    /\ UNCHANGED taskVars

\* if (migrate === 'safe') { return next(); }
SafeReturn ==
    /\ nextCalls' = Append(nextCalls, NoErr)
    /\ pc' = IF nextThrows THEN "threw" ELSE "done"
    /\ thrown' = IF nextThrows THEN Err("CallbackError", "") ELSE thrown
    /\ UNCHANGED << syncTasks, showAllSchemasCalls, syncCalls >>

\* the else branch of migrateSchema: build one task per datastore, then join
BuildAndJoin ==
    LET tasks == [ c \in Conns |->
                     TaskFor(datastores[c], migrate, smartMigrate, dryRun) ]
    IN  /\ syncTasks' = tasks
        /\ showAllSchemasCalls' =
             [ c \in Conns |-> IF tasks[c] = "listing"
                               THEN showAllSchemasCalls[c] + 1
                               ELSE showAllSchemasCalls[c] ]
        /\ syncCalls' =
             [ c \in Conns |-> IF tasks[c] = "syncing"
                               THEN Append(syncCalls[c], SyncFlags(migrate))
                               ELSE syncCalls[c] ]
        /\ IF dryRun THEN
               /\ nextCalls' = Append(nextCalls, NoErr)
               /\ pc' = IF nextThrows THEN "threw" ELSE "done"
               /\ thrown' = IF nextThrows THEN Err("CallbackError", "") ELSE thrown
           ELSE
               /\ nextCalls' = Join("joining", tasks, NoErr, nextCalls)
               /\ pc' = JoinPc("joining", tasks, NoErr)
               /\ UNCHANGED thrown

\* migrateSchema without the early return of the 'safe' strategy
migrateSchemaNoSafeReturn == BuildAndJoin

\* migrateSchema up to its return
migrateSchema ==
    IF migrate = "safe" THEN SafeReturn ELSE BuildAndJoin

\* the callback reload hands to originalLoadModels
loadModelsCallback ==
    /\ pc = "loading"
    /\ IF loadErr THEN
           /\ nextCalls' = Append(nextCalls, Err("LoadError", ""))
           /\ pc' = "done"
           /\ UNCHANGED << thrown, sailsModels, syncTasks, showAllSchemasCalls, syncCalls >>
           /\ UNCHANGED defineVars
       ELSE
           LET dm == defineModels(modelDefs, connections, sailsModels, belongsToMany)
           IN  /\ sailsModels' = dm.models
               /\ belongsToMany' = dm.belongsToMany
               /\ belongsToManyCalls' = belongsToManyCalls \o dm.belongsToManyCalls
               /\ invocations' = invocations \o dm.invocations
               /\ IF dm.thrown # NoErr THEN
                      /\ pc' = "threw"
                      /\ thrown' = dm.thrown
                      /\ UNCHANGED << nextCalls, syncTasks, showAllSchemasCalls, syncCalls >>
                  ELSE migrateSchema
    /\ UNCHANGED << connections, constructed, firstError >>
    /\ UNCHANGED << dbIndexes, dbSchemas, createPending, queryCalls, createSchemaCalls >>
    /\ UNCHANGED configVars
    /\ UNCHANGED waterlineModels
    /\ UNCHANGED taskVars

\* a task promise of connection c is rejected with e; the join sees it
TaskRejected(c, e) ==
    LET tasks == [ syncTasks EXCEPT ![c] = "rejected" ]
        err   == IF firstError = NoErr THEN e ELSE firstError
    IN  /\ syncTasks' = tasks
        /\ firstError' = err
        /\ nextCalls' = Join(pc, tasks, err, nextCalls)
        /\ pc' = JoinPc(pc, tasks, err)

\* a task promise of connection c is fulfilled; the join sees it
TaskResolved(c) ==
    LET tasks == [ syncTasks EXCEPT ![c] = "resolved" ]
    IN  /\ syncTasks' = tasks
        /\ nextCalls' = Join(pc, tasks, firstError, nextCalls)
        /\ pc' = JoinPc(pc, tasks, firstError)
        /\ UNCHANGED firstError

\* the for-in loop over models in the showAllSchemas().then callback
RECURSIVE SchemaLoop(_, _, _, _, _)
SchemaLoop(defs, c, i, schemas, created) ==
    IF i > Len(ModelOrder) THEN [ thrown |-> NoErr, created |-> created ]
    ELSE LET d == defs[ModelOrder[i]]
         IN  IF ~d.present THEN SchemaLoop(defs, c, i + 1, schemas, created)
             ELSE IF ~d.hasOptions THEN
                 [ thrown |-> Err("TypeError: reading schema", c), created |-> created ]
             ELSE IF d.schema # "" /\ d.schema \notin schemas THEN
                 SchemaLoop(defs, c, i + 1, schemas \cup { d.schema },
                            Append(created, d.schema))
             ELSE SchemaLoop(defs, c, i + 1, schemas, created)

Range(q) == { q[i] : i \in 1..Len(q) }

\* showAllSchemas() of connection c settles
ShowAllSchemasReturn(c) ==
    /\ syncTasks[c] = "listing"
    /\ \/ /\ TaskRejected(c, Err("SequelizeDatabaseError", c))
          /\ UNCHANGED << createSchemaCalls, createPending, syncCalls >>
       \/ LET r == SchemaLoop(modelDefs, c, 1, dbSchemas[c], << >>)
          IN  /\ createSchemaCalls' = [ createSchemaCalls EXCEPT ![c] = @ \o r.created ]
              /\ createPending' = [ createPending EXCEPT ![c] = @ \cup Range(r.created) ]
              /\ IF r.thrown # NoErr THEN
                     /\ TaskRejected(c, r.thrown)
                     /\ UNCHANGED syncCalls
                 ELSE
                     /\ syncTasks' = [ syncTasks EXCEPT ![c] = "syncing" ]
                     /\ syncCalls' = [ syncCalls EXCEPT ![c] = Append(@, SyncFlags(migrate)) ]
                     /\ UNCHANGED << firstError, nextCalls, pc >>
    /\ UNCHANGED << thrown, connections, constructed, sailsModels >>
    /\ UNCHANGED << dbIndexes, dbSchemas, queryCalls, showAllSchemasCalls >>
    /\ UNCHANGED configVars
    /\ UNCHANGED waterlineModels
    /\ UNCHANGED defineVars
    /\ UNCHANGED taskVars

\* a createSchema(name) call of connection c settles
CreateSchemaReturn(c) ==
    /\ \E s \in createPending[c] :
         /\ createPending' = [ createPending EXCEPT ![c] = @ \ { s } ]
         /\ \/ dbSchemas' = [ dbSchemas EXCEPT ![c] = @ \cup { s } ]
            \/ UNCHANGED dbSchemas
    /\ UNCHANGED << pc, thrown, connections, constructed, sailsModels, syncTasks,
                    firstError, nextCalls >>
    /\ UNCHANGED << dbIndexes, queryCalls, showAllSchemasCalls, createSchemaCalls, syncCalls >>
    /\ UNCHANGED configVars
    /\ UNCHANGED waterlineModels
    /\ UNCHANGED defineVars
    /\ UNCHANGED taskVars

\* SyncReturn that, on a failure, cancels the tasks still in flight and
\* reverts what the sibling connections have applied
SyncReturnFailFast(c) ==
    /\ syncTasks[c] = "syncing"
    /\ \/ /\ TaskResolved(c)
          /\ dbIndexes' = SyncEffect(dbIndexes, sailsModels, c,
                                     syncCalls[c][Len(syncCalls[c])])
       \/ LET tasks == [ d \in Conns |->
                           IF d = c \/ syncTasks[d] \in { "listing", "syncing" }
                           THEN "rejected" ELSE syncTasks[d] ]
              err   == IF firstError = NoErr
                       THEN Err("SequelizeDatabaseError", c) ELSE firstError
          IN  /\ syncTasks' = tasks
              /\ firstError' = err
              /\ nextCalls' = Join(pc, tasks, err, nextCalls)
              /\ pc' = JoinPc(pc, tasks, err)
              /\ dbIndexes' = [ d \in Conns |-> {} ]
    /\ UNCHANGED << thrown, connections, constructed, sailsModels >>
    /\ UNCHANGED << dbSchemas, createPending, queryCalls, showAllSchemasCalls,
                    createSchemaCalls, syncCalls >>
    /\ UNCHANGED configVars
    /\ UNCHANGED waterlineModels
    /\ UNCHANGED defineVars
    /\ UNCHANGED taskVars

\* connection.sync(...) of connection c settles
SyncReturn(c) ==
    /\ syncTasks[c] = "syncing"
    /\ \/ /\ TaskResolved(c)
          /\ dbIndexes' = SyncEffect(dbIndexes, sailsModels, c,
                                     syncCalls[c][Len(syncCalls[c])])
       \/ /\ TaskRejected(c, Err("SequelizeDatabaseError", c))
          /\ UNCHANGED dbIndexes
    /\ UNCHANGED << thrown, connections, constructed, sailsModels >>
    /\ UNCHANGED << dbSchemas, createPending, queryCalls, showAllSchemasCalls,
                    createSchemaCalls, syncCalls >>
    /\ UNCHANGED configVars
    /\ UNCHANGED waterlineModels
    /\ UNCHANGED defineVars
    /\ UNCHANGED taskVars

Next ==
    \/ initialize
    \/ loadModelsCallback
    \/ \E c \in Conns : ShowAllSchemasReturn(c)
    \/ \E c \in Conns : CreateSchemaReturn(c)
    \/ \E c \in Conns : SyncReturn(c)

Spec == Init /\ [][Next]_vars

----------------------------------------------------------------------------
(* The smart-migrate task: the async function pushed on syncTasks when      *)
(* smartMigrate is on and migrate is 'alter', and deduplicateIndexes        *)

IntrospectedDialects == { "postgres", "mysql" }

\* the rows the introspection query of deduplicateIndexes selects:
\* WHERE tablename = '${tableName.toLowerCase()}' / SHOW INDEX FROM ${tableName}
QueryRows(db, cn, tableName, dialect) ==
    { r \in db[cn] : r.table = IF dialect = "postgres" THEN toLowerCase(tableName)
                               ELSE tableName }

\* deduplicateIndexes without its try/catch around connection.query
deduplicateIndexesNoCatch(rows, dialect, fails) ==
    IF dialect \in IntrospectedDialects
    THEN IF fails THEN [ threw |-> TRUE, queried |-> TRUE, names |-> {} ]
         ELSE [ threw |-> FALSE, queried |-> TRUE, names |-> { r.name : r \in rows } ]
    ELSE [ threw |-> FALSE, queried |-> FALSE, names |-> {} ]

\* deduplicateIndexes: whether it throws, whether it issues a query, and the
\* names of the indexes it returns; fails says that connection.query threw
deduplicateIndexes(rows, dialect, fails) ==
    IF dialect \in IntrospectedDialects
    THEN IF fails THEN [ threw |-> FALSE, queried |-> TRUE, names |-> {} ]
         ELSE [ threw |-> FALSE, queried |-> TRUE, names |-> { r.name : r \in rows } ]
    ELSE [ threw |-> FALSE, queried |-> FALSE, names |-> {} ]

\* the filter loop with the derived name taken from the fields alone
RECURSIVE FilterIndexesIgnoringName(_, _, _)
FilterIndexesIgnoringName(pending, tableName, existing) ==
    IF pending = << >> THEN << >>
    ELSE LET idx       == Head(pending)
             indexName == tableName \o "_" \o join(idx.fields, "_")
             rest      == FilterIndexesIgnoringName(Tail(pending), tableName, existing)
         IN  IF indexName \in existing THEN rest ELSE << idx >> \o rest

\* for (const idx of model._indexes) { ... newIndexes.push(idx) ... }
RECURSIVE FilterIndexes(_, _, _)
FilterIndexes(pending, tableName, existing) ==
    IF pending = << >> THEN << >>
    ELSE LET idx       == Head(pending)
             indexName == IndexName(tableName, idx)
             rest      == FilterIndexes(Tail(pending), tableName, existing)
         IN  IF indexName \in existing THEN rest ELSE << idx >> \o rest

\* if (model._indexes && model._indexes.length) { ...; model._indexes = ... }
FilterStep(model, existing) ==
    IF Len(model.indexes) > 0
    THEN [ model EXCEPT !.indexes = FilterIndexes(model.indexes, model.tableName, existing) ]
    ELSE model

\* what deduplicateIndexes has returned in one round of the loop: the names,
\* and whether its query failed
Returned(found, failed) ==
    [ returned |-> TRUE, names |-> found, failed |-> failed ]

\* the for-in loop of the task from model i on, up to its next await of a
\* database round trip: the introspection query of a model, or sync
RECURSIVE TaskLoop(_, _, _, _, _)
TaskLoop(defs, dialect, i, sm, ex) ==
    IF i > Len(ModelOrder) THEN
        [ pc |-> "sync", model |-> i, models |-> sm, existing |-> ex ]
    ELSE LET d  == defs[ModelOrder[i]]
             id == toLowerCase(d.globalId)
         IN  IF ~d.present \/ ~d.hasOptions THEN TaskLoop(defs, dialect, i + 1, sm, ex)
             ELSE IF ~sm[id].present THEN TaskLoop(defs, dialect, i + 1, sm, ex)
             ELSE IF dialect \in IntrospectedDialects THEN
                 [ pc |-> "query", model |-> i, models |-> sm, existing |-> ex ]
             ELSE LET found == deduplicateIndexes({}, dialect, FALSE).names
                  IN  TaskLoop(defs, dialect, i + 1,
                               [ sm EXCEPT ![id] = FilterStep(sm[id], found) ],
                               [ ex EXCEPT ![ModelOrder[i]] = Returned(found, FALSE) ])

\* sails.models as reload builds it
BoundModels ==
    defineModels(modelDefs, connections, [ id \in ModelIds |-> NoModel ], "original").models

DbIndexSets == { {},
                 { DbIndex("user", "user_a_b") },
                 { DbIndex("user", "ab_idx"), DbIndex("user", "user_a_c"),
                   DbIndex("role", "user_a_b") } }

\* the run has reported success and holds the task function, not yet invoked
TaskInit ==
    /\ migrate = "alter"
    /\ smartMigrate = TRUE
    /\ dryRun = FALSE
    /\ loadErr = FALSE
    /\ nextThrows = FALSE
    /\ \E d \in DefaultEntries, a \in AuxEntries :
         datastores = [ c \in Conns |-> IF c = "default" THEN d ELSE a ]
    /\ \E d1 \in M1Defs, d2 \in M2Defs :
         modelDefs = [ k \in ModelKeys |-> IF k = "m1" THEN d1 ELSE d2 ]
    /\ initConnections(datastores).thrown = NoErr
    /\ connections = initConnections(datastores).connections
    /\ constructed = initConnections(datastores).constructed
    /\ \E dm \in { defineModels(modelDefs, connections,
                                [ id \in ModelIds |-> NoModel ], "original") } :
         /\ dm.thrown = NoErr
         /\ belongsToMany = dm.belongsToMany
         /\ belongsToManyCalls = dm.belongsToManyCalls
         /\ invocations = dm.invocations
    /\ waterlineModels = NotLoaded
    /\ sailsModels = BoundModels
    /\ thrown = NoErr
    /\ syncTasks = [ c \in Conns |->
                       TaskFor(datastores[c], migrate, smartMigrate, dryRun) ]
    /\ firstError = NoErr
    /\ nextCalls = << NoErr >>
    /\ pc = "done"
    /\ \E s \in DbIndexSets : dbIndexes = [ c \in Conns |-> s ]
    /\ dbSchemas = [ c \in Conns |-> {} ]
    /\ createPending = [ c \in Conns |-> {} ]
    /\ queryCalls = NoCalls
    /\ showAllSchemasCalls = NoCalls
    /\ createSchemaCalls = [ c \in Conns |-> << >> ]
    /\ syncCalls = [ c \in Conns |-> << >> ]
    /\ taskConn \in { c \in Conns : syncTasks[c] = "function" }
    /\ taskPc = "idle"
    /\ taskModel = 0
    /\ taskRun = 1
    /\ existingIndexes = NotIntrospected
    /\ appliedByFirstRun = {}

runVars == << pc, thrown, connections, constructed, syncTasks, firstError, nextCalls >>

\* the task goes on to its next await
TaskAdvance(r) ==
    /\ taskPc' = r.pc
    /\ taskModel' = r.model
    /\ sailsModels' = r.models
    /\ existingIndexes' = r.existing
    /\ queryCalls' = IF r.pc = "query"
                     THEN [ queryCalls EXCEPT ![taskConn] = @ + 1 ] ELSE queryCalls
    /\ syncCalls' = IF r.pc = "sync"
                    THEN [ syncCalls EXCEPT ![taskConn] = Append(@, SyncFlags(migrate)) ]
                    ELSE syncCalls

\* the task function is called
TaskInvoke ==
    /\ taskPc = "idle"
    /\ TaskAdvance(TaskLoop(modelDefs, Dialect(datastores[taskConn]), 1,
                            sailsModels, existingIndexes))
    /\ UNCHANGED << taskConn, taskRun, appliedByFirstRun >>
    /\ UNCHANGED << dbIndexes, dbSchemas, createPending, showAllSchemasCalls,
                    createSchemaCalls >>
    /\ UNCHANGED runVars
    /\ UNCHANGED configVars
    /\ UNCHANGED waterlineModels
    /\ UNCHANGED defineVars

\* the introspection query of the current model settles: deduplicateIndexes
\* returns, the model's list is filtered, the loop goes on
TaskQueryReturn ==
    /\ taskPc = "query"
    /\ \E fails \in BOOLEAN :
         LET dialect == Dialect(datastores[taskConn])
             id      == toLowerCase(modelDefs[ModelOrder[taskModel]].globalId)
             model   == sailsModels[id]
             result  == deduplicateIndexes(
                            QueryRows(dbIndexes, taskConn, model.tableName, dialect),
                            dialect, fails)
             sm      == [ sailsModels EXCEPT ![id] = FilterStep(model, result.names) ]
             ex      == [ existingIndexes EXCEPT
                            ![ModelOrder[taskModel]] = Returned(result.names, fails) ]
         IN  IF result.threw THEN
                 /\ taskPc' = "rejected"
                 /\ UNCHANGED << taskModel, sailsModels, existingIndexes,
                                 queryCalls, syncCalls >>
             ELSE TaskAdvance(TaskLoop(modelDefs, dialect, taskModel + 1, sm, ex))
    /\ UNCHANGED << taskConn, taskRun, appliedByFirstRun >>
    /\ UNCHANGED << dbIndexes, dbSchemas, createPending, showAllSchemasCalls,
                    createSchemaCalls >>
    /\ UNCHANGED runVars
    /\ UNCHANGED configVars
    /\ UNCHANGED waterlineModels
    /\ UNCHANGED defineVars

\* the models whose pending indexes a sync of connection cn applies
ModelsApplied(sm, cn) ==
    { id \in ModelIds : sm[id].present /\ sm[id].connection = cn /\ sm[id].indexes # << >> }

\* connection.sync({ force, alter }) of the task settles
TaskSyncReturn ==
    /\ taskPc = "sync"
    /\ \/ /\ taskPc' = "resolved"
          /\ dbIndexes' = SyncEffect(dbIndexes, sailsModels, taskConn,
                                     syncCalls[taskConn][Len(syncCalls[taskConn])])
          /\ appliedByFirstRun' = IF taskRun = 1
                                  THEN ModelsApplied(sailsModels, taskConn)
                                  ELSE appliedByFirstRun
       \/ /\ taskPc' = "rejected"
          /\ UNCHANGED << dbIndexes, appliedByFirstRun >>
    /\ UNCHANGED << taskConn, taskModel, taskRun, existingIndexes, sailsModels >>
    /\ UNCHANGED << dbSchemas, createPending, queryCalls, showAllSchemasCalls,
                    createSchemaCalls, syncCalls >>
    /\ UNCHANGED runVars
    /\ UNCHANGED configVars
    /\ UNCHANGED waterlineModels
    /\ UNCHANGED defineVars

\* the next convergence run against the same database: the hook starts
\* again, reload binds the models anew and builds the task anew
TaskRestart ==
    /\ taskPc \in { "resolved", "rejected" }
    /\ taskRun < MaxRuns
    /\ taskRun' = taskRun + 1
    /\ taskPc' = "idle"
    /\ taskModel' = 0
    /\ sailsModels' = BoundModels
    /\ existingIndexes' = NotIntrospected
    /\ UNCHANGED << taskConn, appliedByFirstRun >>
    /\ UNCHANGED dbVars
    /\ UNCHANGED runVars
    /\ UNCHANGED configVars
    /\ UNCHANGED waterlineModels
    /\ UNCHANGED defineVars

TaskNext ==
    \/ TaskInvoke
    \/ TaskQueryReturn
    \/ TaskSyncReturn
    \/ TaskRestart

SmartTaskSpec == TaskInit /\ [][TaskNext]_vars

----------------------------------------------------------------------------
(* The overridden model loader that configure installs as                  *)
(* sails.modules.loadModels, called by the host's own data layer           *)

\* typeof model.options === 'undefined' || typeof model.options.tableName === 'undefined'
IsWaterlineModel(d) == ~d.hasOptions \/ d.tableName = ""

\* the models object the forEach builds from modelDefs
DetectWaterlineModels(defs) ==
    { k \in ModelKeys : defs[k].present /\ IsWaterlineModel(defs[k]) }

\* sails.modules.loadModels(cb): with an err no definition reaches cb
load ==
    /\ pc = "start"
    /\ ~waterlineModels.called
    /\ waterlineModels' = [ called |-> TRUE,
                            models |-> IF loadErr THEN {}
                                       ELSE DetectWaterlineModels(modelDefs) ]
    /\ UNCHANGED << pc, thrown, connections, constructed, sailsModels, syncTasks,
                    firstError, nextCalls >>
    /\ UNCHANGED dbVars
    /\ UNCHANGED configVars
    /\ UNCHANGED defineVars
    /\ UNCHANGED taskVars

\* the host loads its models through the overridden loader, then the hook
\* is initialized and defines its own
LoaderNext ==
    \/ load
    \/ initialize
    \/ loadModelsCallback

LoaderSpec == Init /\ [][LoaderNext]_vars

----------------------------------------------------------------------------
(* Vocabulary of the properties *)

\* the datastore entry of c belongs to this hook
Owned(c) == datastores[c].present /\ SkipCheck(datastores[c]) = "own"

\* the entry of c carries a foreign adapter marker or names no dialect
Foreign(c) ==
    /\ datastores[c].present
    /\ \/ datastores[c].adapter # ""
       \/ datastores[c].dialect = "" /\ datastores[c].optDialect = ""

\* migrateSchema has been entered
InMigrate == pc \in { "joining", "done" } /\ ~loadErr

NoDatabaseCall ==
    \A c \in Conns : /\ queryCalls[c] = 0
                     /\ showAllSchemasCalls[c] = 0
                     /\ createSchemaCalls[c] = << >>
                     /\ syncCalls[c] = << >>

SmartAlter == migrate = "alter" /\ smartMigrate /\ ~dryRun

\* the sync primitive of c was invoked and rejected
SyncFailed(c) == syncTasks[c] = "rejected" /\ syncCalls[c] # << >>

----------------------------------------------------------------------------
(* C1 *)

\* C1: with migrate = 'safe', whatever smartMigrate, dryRun, the datastores
\* and the models are, migrateSchema calls next() exactly once with no error
\* and the run issues no database call: no introspection query, no schema
\* listing or creation, no sync.
C1_SafeIsNoOp ==
    migrate = "safe" =>
        /\ NoDatabaseCall
        /\ \A c \in Conns : syncTasks[c] = "none"
        /\ InMigrate => nextCalls = << NoErr >>

C1_Witness ==
    /\ migrate = "safe" /\ smartMigrate /\ ~dryRun
    /\ InMigrate
    /\ nextCalls = << NoErr >>
    /\ \A c \in Conns : Owned(c)
    /\ \E id \in ModelIds : sailsModels[id].present /\ sailsModels[id].indexes # << >>

----------------------------------------------------------------------------
(* C2 *)

\* C2: with dryRun = true, for every migrate value and smartMigrate on or
\* off, migrateSchema calls next() with no error, no task is pushed on
\* syncTasks and no introspection, schema listing/creation or sync call is
\* issued on any connection.
C2_DryRunIsNoOp ==
    dryRun =>
        /\ NoDatabaseCall
        /\ \A c \in Conns : syncTasks[c] = "none"
        /\ InMigrate => nextCalls = << NoErr >>

C2_Witness ==
    /\ dryRun /\ migrate = "drop"
    /\ InMigrate
    /\ nextCalls = << NoErr >>
    /\ Owned("default") /\ Dialect(datastores["default"]) = "postgres"
    /\ Owned("aux") /\ Dialect(datastores["aux"]) = "mysql"

----------------------------------------------------------------------------
(* C3 *)

\* C3: with migrate = 'alter', smartMigrate = true, dryRun = false, success is
\* reported only after every owned connection has had its models
\* introspected and its sync primitive invoked with {force: false,
\* alter: true}, and that sync has succeeded.
C3_SmartAlterSyncsBeforeSuccess ==
    (SmartAlter /\ Succeeded(nextCalls)) =>
        \A c \in Conns : Owned(c) =>
            /\ syncCalls[c] = << [ force |-> FALSE, alter |-> TRUE ] >>
            /\ syncTasks[c] = "resolved"

----------------------------------------------------------------------------
(* C4 *)

\* C4: in a run that is neither safe nor dry-run, success is reported only
\* if every per-connection synchronization task succeeded, and once a task
\* has failed the callback is invoked with the first task error and success
\* is never reported.
C4_SuccessIffAllTasksSucceeded ==
    (InMigrate /\ migrate # "safe" /\ ~dryRun) =>
        /\ Succeeded(nextCalls) => \A c \in Conns : Owned(c) => syncTasks[c] = "resolved"
        /\ (\A c \in Conns : Owned(c) => syncTasks[c] = "resolved") => Succeeded(nextCalls)
        /\ firstError # NoErr => nextCalls = << firstError >>

----------------------------------------------------------------------------
(* C5 *)

\* C5: when one connection's structural sync has failed, every other owned
\* connection's task has been issued, a task still in flight can still make
\* its next step (it is not cancelled), and what a sibling's sync has applied
\* to its database stays applied in every later step of the run.
C5_Issued ==
    \A c \in Conns : SyncFailed(c) =>
        \A d \in Conns \ { c } : Owned(d) =>
            syncTasks[d] \in { "listing", "syncing", "resolved", "rejected" }

C5_NotCancelled ==
    \A d \in Conns :
        /\ syncTasks[d] = "listing" => ENABLED ShowAllSchemasReturn(d)
        /\ syncTasks[d] = "syncing" => ENABLED SyncReturn(d)

C5_StaysApplied ==
    \A d \in Conns : syncTasks[d] = "resolved" =>
        /\ syncTasks'[d] = "resolved"
        /\ dbIndexes'[d] = dbIndexes[d]

C5_SiblingsUnaffected ==
    [](C5_Issued /\ C5_NotCancelled) /\ [][C5_StaysApplied]_vars

C5_Witness ==
    /\ pc = "done"
    /\ SyncFailed("default")
    /\ nextCalls = << Err("SequelizeDatabaseError", "default") >>
    /\ syncTasks["aux"] = "resolved"
    /\ dbIndexes["aux"] # {}

----------------------------------------------------------------------------
(* C6 *)

\* C6: when the default connection name is absent from the datastores,
\* initConnections throws before constructing any connection; no model is
\* bound, no task is built, no database call is issued and the completion
\* callback never reports success.
C6_MissingDefaultIsFatal ==
    ~datastores[datastoreName].present =>
        /\ constructed = {} /\ connections = {}
        /\ \A id \in ModelIds : ~sailsModels[id].present
        /\ \A c \in Conns : syncTasks[c] = "none"
        /\ NoDatabaseCall
        /\ nextCalls = << >>
        /\ pc \in { "start", "threw" }
        /\ pc = "threw" => thrown = Err("ConfigError", datastoreName)

C6_Witness ==
    /\ ~datastores[datastoreName].present
    /\ Owned("aux")
    /\ pc = "threw"
    /\ thrown = Err("ConfigError", datastoreName)

----------------------------------------------------------------------------
(* C7 *)

\* C7: a model definition lacking `options` is excluded from every pass and
\* produces no error: no run reports or throws an error raised by reading
\* the options of such a definition.
C7_OptionlessDefinitionIsHarmless ==
    (\E k \in ModelKeys : modelDefs[k].present /\ ~modelDefs[k].hasOptions) =>
        \A i \in 1..Len(nextCalls) : nextCalls[i].name # "TypeError: reading schema"

----------------------------------------------------------------------------
(* C8 *)

\* C8: every datastore entry that carries an adapter or names no dialect
\* (at top level or under options, an entry with no options object included)
\* is skipped silently: no connection is constructed for it, no task is
\* built for it, and no error is raised because of it.
C8_ForeignEntrySkippedSilently ==
    \A c \in Conns : Foreign(c) =>
        /\ c \notin constructed
        /\ syncTasks[c] = "none"
        /\ thrown # Err("TypeError: reading dialect", c)

----------------------------------------------------------------------------
(* C9 *)

TaskPastFilter == taskPc \in { "sync", "resolved", "rejected" }

\* C9: in the smart-migrate task, once deduplicateIndexes has returned for a
\* model, a pending index of the model has been removed exactly when its
\* derived name (its name if given, else tableName_field1_field2...) is among
\* the returned names, the others are retained in their order; and sync is
\* invoked only when every bound model's list has been replaced so.
C9_FilterRemovesExactlyExisting ==
    /\ \A id \in ModelIds :
         LET rounds == { k \in ModelKeys : /\ existingIndexes[k].returned
                                           /\ toLowerCase(modelDefs[k].globalId) = id }
             old    == BoundModels[id].indexes
             new    == sailsModels[id].indexes
             names  == UNION { existingIndexes[k].names : k \in rounds }
             Kept(idx) == IndexName(sailsModels[id].tableName, idx) \notin names
         IN  rounds # {} =>
               /\ \A k \in 1..Len(old) :
                    (\E j \in 1..Len(new) : new[j] = old[k]) <=> Kept(old[k])
               /\ new = SelectSeq(old, Kept)
    /\ TaskPastFilter =>
         \A k \in ModelKeys :
            (modelDefs[k].present /\ modelDefs[k].hasOptions) => existingIndexes[k].returned
    /\ Len(syncCalls[taskConn]) = IF TaskPastFilter THEN taskRun ELSE taskRun - 1

C9_Witness ==
    /\ taskPc = "sync"
    /\ existingIndexes["m1"].returned
    /\ existingIndexes["m1"].names = { "user_a_b" }
    /\ BoundModels["user"].indexes = << IdxAB, IdxAC >>
    /\ sailsModels["user"].indexes = << IdxAC >>

----------------------------------------------------------------------------
(* C10 *)

\* C10: after the second of two smart-migrate runs in a row against the same
\* database, every model whose pending indexes the first run applied has
\* an empty pending-index list.
C10_SecondRunLeavesNothingPending ==
    (taskRun = 2 /\ TaskPastFilter) =>
        \A id \in appliedByFirstRun : sailsModels[id].indexes = << >>

----------------------------------------------------------------------------
(* C11 *)

\* C11: deduplicateIndexes never fails. A failed introspection query gives
\* the empty list, a dialect other than postgres and mysql gives the empty
\* list with no query issued, and the task is rejected only by its sync call,
\* never by an introspection failure.
C11_IntrospectionNeverFails ==
    /\ \A k \in ModelKeys :
         /\ (existingIndexes[k].returned
               /\ Dialect(datastores[taskConn]) \notin { "postgres", "mysql" })
              => existingIndexes[k].names = {} /\ queryCalls[taskConn] = 0
         /\ existingIndexes[k].failed => existingIndexes[k].names = {}
    /\ taskPc = "rejected" => Len(syncCalls[taskConn]) = taskRun
    /\ nextCalls = << NoErr >>

C11_Witness ==
    /\ taskPc = "resolved"
    /\ taskRun = 1
    /\ existingIndexes["m1"].failed
    /\ existingIndexes["m1"].names = {}
    /\ sailsModels["user"].indexes # << >>
    /\ PendingIndexes(BoundModels, taskConn) \cap dbIndexes[taskConn] # {}

----------------------------------------------------------------------------
(* C12 *)

\* two definitions with options resolve to the same lower-cased identifier
DuplicateIds ==
    \E k1, k2 \in ModelKeys :
       /\ k1 # k2
       /\ modelDefs[k1].present /\ modelDefs[k1].hasOptions
       /\ modelDefs[k2].present /\ modelDefs[k2].hasOptions
       /\ toLowerCase(modelDefs[k1].globalId) = toLowerCase(modelDefs[k2].globalId)

\* C12: when two owned definitions resolve to the same lower-cased global
\* identifier, defineModels fails: the run never enters migrateSchema, and the
\* model registered under the identifier is never the one of the later
\* definition.
C12_DuplicateIdIsFatal ==
    DuplicateIds =>
        /\ ~InMigrate
        /\ sailsModels["user"].present =>
             sailsModels["user"].globalId = modelDefs["m1"].globalId

----------------------------------------------------------------------------
(* C13 *)

\* the definition has options, so defineModels binds it
Bound(k) == modelDefs[k].present /\ modelDefs[k].hasOptions

\* index is non-unique over two or more fields
Composite(index) == index.unique = FALSE /\ Len(index.fields) >= 2

\* the through target resolves to a bound model carrying a non-unique
\* two-column index
ThroughResolves(through) ==
    LET model == sailsModels[toLowerCase(through.model)]
    IN  /\ model.present
        /\ \E k \in 1..Len(model.options.indexes) :
              /\ model.options.indexes[k].unique = FALSE
              /\ Len(model.options.indexes[k].fields) = 2

\* C13: every many-to-many request made inside an associations function
\* whose through target resolves to a bound model with a non-unique
\* two-column index reaches the original method with uniqueKey = false,
\* whether through is a model name, a model or an object naming the model;
\* and after defineModels every such declared index of a model is in that
\* model's pending-index list.
C13_ThroughSuppressesUniqueKey ==
    /\ \A k \in 1..Len(belongsToManyCalls) :
         ThroughResolves(belongsToManyCalls[k].through) =>
            belongsToManyCalls[k].uniqueKey = "false"
    /\ InMigrate =>
         \A id \in ModelIds :
            \A k \in 1..Len(sailsModels[id].options.indexes) :
               LET index == sailsModels[id].options.indexes[k]
               IN  (index.unique = FALSE /\ Len(index.fields) = 2) =>
                      \E p \in 1..Len(sailsModels[id].indexes) :
                         sailsModels[id].indexes[p].fields = index.fields

----------------------------------------------------------------------------
(* C14 *)

\* C14: every sync call of a run carries the flags its migrate value
\* determines, the same for every connection: 'drop' force without alter,
\* 'alter' alter without force, any other value neither; never both.
C14_FlagsFollowMigrate ==
    \A c \in Conns :
       \A k \in 1..Len(syncCalls[c]) :
          /\ syncCalls[c][k] =
               CASE migrate = "drop"  -> [ force |-> TRUE,  alter |-> FALSE ]
                 [] migrate = "alter" -> [ force |-> FALSE, alter |-> TRUE ]
                 [] OTHER             -> [ force |-> FALSE, alter |-> FALSE ]
          /\ ~(syncCalls[c][k].force /\ syncCalls[c][k].alter)

C14_Witness ==
    /\ migrate = "alter"
    /\ \A c \in Conns : Len(syncCalls[c]) = 1

----------------------------------------------------------------------------
(* C15 *)

\* C15: Sequelize.Model.belongsToMany is the original method at the start of
\* every associations call and whenever no associations call is executing,
\* also after a call that ended by throwing.
C15_InterceptionRestored ==
    /\ belongsToMany = "original"
    /\ \A k \in 1..Len(invocations) :
         invocations[k].fn = "associations" => invocations[k].belongsToMany = "original"

----------------------------------------------------------------------------
(* C16 *)

\* C16: after the third pass, every declared index with unique = false and
\* two or more fields has an entry with the same field list in its model's
\* pending list, no two pending entries have the same field list, and every
\* pending entry is a declared non-unique index of two or more fields.
C16_ThirdPassAccumulates ==
    InMigrate =>
       \A id \in ModelIds :
          LET pending  == sailsModels[id].indexes
              declared == { k \in ModelKeys :
                              Bound(k) /\ toLowerCase(modelDefs[k].globalId) = id }
          IN  /\ \A k \in declared :
                    \A j \in 1..Len(modelDefs[k].indexes) :
                       Composite(modelDefs[k].indexes[j]) =>
                          \E p \in 1..Len(pending) :
                             pending[p].fields = modelDefs[k].indexes[j].fields
              /\ \A a, b \in 1..Len(pending) :
                    a # b => pending[a].fields # pending[b].fields
              /\ \A a \in 1..Len(pending) :
                    /\ Composite(pending[a])
                    /\ \E k \in declared : \E j \in 1..Len(modelDefs[k].indexes) :
                          modelDefs[k].indexes[j] = pending[a]

C16_Witness ==
    /\ InMigrate
    /\ modelDefs["m1"].indexes = << IdxABNamed, IdxAB, IdxSingle >>
    /\ sailsModels["user"].indexes = << IdxABNamed >>

----------------------------------------------------------------------------
(* C19 *)

\* C19: whenever a definition's associations or defaultScope function is
\* invoked, every definition with options is registered under its
\* lower-cased global identifier and no index has been accumulated yet.
C19_PassesInOrder ==
    \A k \in 1..Len(invocations) :
       /\ \A key \in ModelKeys :
             Bound(key) => toLowerCase(modelDefs[key].globalId) \in invocations[k].resolvable
       /\ ~invocations[k].accumulated

C19_Witness ==
    /\ InMigrate
    /\ Len(invocations) = 4
    /\ \A k \in 1..Len(invocations) : invocations[k].resolvable = { "user", "role" }
    /\ sailsModels["user"].indexes # << >>
    /\ sailsModels["role"].indexes # << >>

----------------------------------------------------------------------------
(* C17 *)

\* C17: on a connection synchronized through the schema listing, sync is
\* invoked only when every createSchema call issued has completed, no
\* namespace is created twice, and only namespaces named by a model's
\* options.schema are created.
C17_SchemasCreatedBeforeSync ==
    \A c \in Conns :
       /\ syncCalls[c] # << >> => createPending[c] = {}
       /\ \A a, b \in 1..Len(createSchemaCalls[c]) :
             a # b => createSchemaCalls[c][a] # createSchemaCalls[c][b]
       /\ \A a \in 1..Len(createSchemaCalls[c]) :
             \E k \in ModelKeys : /\ Bound(k)
                                  /\ modelDefs[k].schema = createSchemaCalls[c][a]

----------------------------------------------------------------------------
(* C18 *)

\* C18: the smart-migrate task of a connection introspects and filters only
\* the models bound to that connection.
C18_TaskTouchesOwnModelsOnly ==
    \A k \in ModelKeys :
       existingIndexes[k].returned =>
          sailsModels[toLowerCase(modelDefs[k].globalId)].connection = taskConn

----------------------------------------------------------------------------
(* C20 *)

\* C20: the completion callback is invoked at most once in a run, exactly
\* once when the run has ended without an exception leaving it, also when
\* the callback throws while it reports success.
C20_CallbackExactlyOnce ==
    /\ Len(nextCalls) <= 1
    /\ pc = "done" => Len(nextCalls) = 1

----------------------------------------------------------------------------
(* C21 *)

\* the definition was realized as a bound model by defineModels
Realized(k) ==
    /\ Bound(k)
    /\ sailsModels[toLowerCase(modelDefs[k].globalId)].present
    /\ pc \notin { "start", "loading" }

\* C21: no definition is both handed to the Waterline loader callback by the
\* overridden sails.modules.loadModels and realized as a bound model by
\* defineModels, whether it has no options, options without tableName, or
\* options with tableName.
C21_LoaderAndDefineModelsPartition ==
    \A k \in ModelKeys : ~(k \in waterlineModels.models /\ Realized(k))

====
